---------------------------- MODULE Spec2Model ----------------------------
(***************************************************************************)
(* RiverLakeNetwork: the topology-correction layer.                        *)
(*                                                                         *)
(*   Utility.compute_uparea          Kahn-order accumulation of area       *)
(*   Utility.add_immediate_upstream  reverse adjacency (maxup, up1..upK)   *)
(*   ResolvableLakes                 the lake resolvability filter         *)
(*   NetworkTopologyCorrection       lake insertion and edge rewriting     *)
(*   OutputChecker                   post-condition checks                 *)
(*                                                                         *)
(* A table (pandas DataFrame) is a sequence of rows, a row a record whose  *)
(* fields are the table's columns.  A missing value (NaN, None, pd.NA) is  *)
(* the value NA.  The geometry engine (geopandas overlay / sjoin) is an    *)
(* input: the relation "segment s intersects lake l" and the filter's      *)
(* per-lake predicates are drawn in Init.                                  *)
(***************************************************************************)
EXTENDS Integers, Sequences, FiniteSets, TLC

VARIABLES
    riv_org,    \* the original river table (BurnLakes.riv_org)
    riv,        \* the river table being processed / corrected
    cat,        \* the catchment table
    lake_org,   \* the lake table as loaded
    lake,       \* the lake table handed on (filtered, then corrected)
    geo,        \* the geometry engine's answers for this input
    acc,        \* compute_uparea's local state (dictionaries and queue)
    pc,         \* position of the run
    err,        \* the exception raised, "" when none
    report,     \* the example violation in the message of Check A's error
    warn        \* the COMIDs OutputChecker printed a warning for

vars == <<riv_org, riv, cat, lake_org, lake, geo, acc, pc, err, report, warn>>

---------------------------------------------------------------------------
(* Bounds of the model *)

\* number of river segments of an input table: COMID 1..NumSeg
NumSeg == 3
\* largest unit area / upstream area of an input row
MaxArea == 3
\* number of lakes of an input lake table: LakeCOMID 1..NumLake
NumLake == 2
\* largest unit area of a table handed to compute_uparea directly
MaxSeed == 1

(* Program constants *)

\* the terminal sentinel of NextDownCOMID
Sentinel == -9999
\* a missing value: np.nan, None, pd.NA
NA == -10000

SegIds == 1..NumSeg
\* an id that is in no table (a dangling downstream reference)
Dangling == NumSeg + 1

---------------------------------------------------------------------------
(* Generic helpers *)

Max(a, b) == IF a >= b THEN a ELSE b

RECURSIVE SetSum(_, _)
\* the sum of f[x] over x \in S
SetSum(S, f) ==
    IF S = {} THEN 0
    ELSE LET x == CHOOSE y \in S : TRUE
         IN  f[x] + SetSum(S \ {x}, f)

RECURSIVE SetMax(_)
\* the maximum of a non-empty set of integers
SetMax(S) ==
    LET x == CHOOSE y \in S : TRUE
    IN  IF S = {x} THEN x ELSE Max(x, SetMax(S \ {x}))

\* pd.notna / pd.isna
notna(v) == v # NA
isna(v) == v = NA

\* the rows of a table as index set
Rows(df) == DOMAIN df

\* set(df["COMID"])
ComidSet(df) == {df[i].COMID : i \in Rows(df)}

\* the last row of df whose COMID is c (dict(zip(..)) keeps the last)
LastRowOf(df, c) ==
    LET I == {i \in Rows(df) : df[i].COMID = c}
    IN  CHOOSE i \in I : \A j \in I : j <= i

\* a river row as ingestion delivers it
RivRow(id, nxt, unitarea, uparea) ==
    [COMID |-> id, NextDownCOMID |-> nxt, unitarea |-> unitarea,
     uparea |-> uparea, length |-> 2, geometry |-> "line",
     islake |-> NA, LakeCOMID |-> NA, exorheic |-> "absent",
     inflow |-> NA, outflow |-> NA, inoutflow |-> NA, maxup |-> NA,
     up |-> <<>>]

---------------------------------------------------------------------------
(* Utility.compute_uparea *)

\* NextClean without the `isin(comids)` line: a dangling id stays
NextCleanKeepDangling(d, comids) ==
    IF d = Sentinel \/ isna(d) THEN NA ELSE d

\* step 3: the clean downstream value of raw value d over the id set comids
NextClean(d, comids) ==
    IF d = Sentinel \/ isna(d) \/ d \notin comids THEN NA ELSE d

\* step 4: nextdown = dict(zip(COMID, next_clean))
NextDownDict(df) ==
    [c \in ComidSet(df) |->
        NextClean(df[LastRowOf(df, c)].NextDownCOMID, ComidSet(df))]

\* step 1 + 4: uparea = dict(zip(COMID, unitarea.fillna(0)))
SeedDict(df) ==
    [c \in ComidSet(df) |->
        LET a == df[LastRowOf(df, c)].unitarea IN IF isna(a) THEN 0 ELSE a]

\* step 5: indegree[d] = number of entries u of nextdown with nextdown[u] = d
Indegree(nextdown) ==
    [c \in DOMAIN nextdown |->
        Cardinality({u \in DOMAIN nextdown : nextdown[u] = c})]

\* steps 2-6: the dictionaries and the queue before the loop starts.
\* The deque is built by iterating a set, in an order Python does not
\* specify: the initial entries are kept as the set `heads`, from which
\* popleft takes any one; nodes appended later queue up in `queue`
\* behind them.
KahnInit(df) ==
    LET nd == NextDownDict(df)
        ind == Indegree(nd)
    IN  [nextdown |-> nd,
         uparea   |-> SeedDict(df),
         indegree |-> ind,
         heads    |-> {c \in DOMAIN nd : ind[c] = 0},
         queue    |-> <<>>,
         visits   |-> [c \in DOMAIN nd |-> 0],
         raised   |-> ""]

\* `while queue` (an exception ends the loop)
QueueNonEmpty(st) == st.raised = "" /\ (st.heads # {} \/ st.queue # <<>>)

\* the nodes popleft may return
PopChoices(st) == IF st.heads # {} THEN st.heads ELSE {Head(st.queue)}

\* KahnStep enqueueing the downstream node without waiting for its
\* in-degree to reach zero
KahnStepEager(st, u) ==
    LET rest == IF u \in st.heads
                THEN [st EXCEPT !.heads = @ \ {u}]
                ELSE [st EXCEPT !.queue = Tail(@)]
        seen == [rest EXCEPT !.visits[u] = @ + 1]
        d    == st.nextdown[u]
    IN  IF isna(d) THEN seen
        ELSE [seen EXCEPT !.uparea[d] = @ + st.uparea[u],
                          !.indegree[d] = @ - 1,
                          !.queue = Append(@, d)]

\* step 7: one iteration of the loop, popleft returning u
KahnStep(st, u) ==
    LET rest == IF u \in st.heads
                THEN [st EXCEPT !.heads = @ \ {u}]
                ELSE [st EXCEPT !.queue = Tail(@)]
        seen == [rest EXCEPT !.visits[u] = @ + 1]
        d    == st.nextdown[u]
    IN  IF isna(d) THEN seen
        ELSE IF d \notin DOMAIN st.uparea
        THEN [seen EXCEPT !.raised = "KeyError"]   \* uparea[d] of no key d
        ELSE LET ind == st.indegree[d] - 1
             IN  [seen EXCEPT !.uparea[d] = @ + st.uparea[u],
                              !.indegree[d] = ind,
                              !.queue = IF ind = 0 THEN Append(@, d) ELSE @]

RECURSIVE KahnRun(_)
\* the loop run to the end (popleft taking the smallest initial entry)
KahnRun(st) ==
    IF ~QueueNonEmpty(st) THEN st
    ELSE LET C == PopChoices(st)
             u == CHOOSE x \in C : \A y \in C : x <= y
         IN  KahnRun(KahnStep(st, u))

\* UpareaResult storing the clean downstream column as NextDownCOMID
UpareaResultClean(df, st) ==
    [i \in Rows(df) |->
        [df[i] EXCEPT !.uparea = st.uparea[df[i].COMID],
                      !.unitarea = IF isna(@) THEN 0 ELSE @,
                      !.NextDownCOMID = st.nextdown[df[i].COMID]]]

\* step 8: df["uparea"] = df["COMID"].map(uparea); NextDownCOMID is stored
\* as Int64 (a missing value is pd.NA), otherwise untouched; unitarea was
\* replaced by unitarea.fillna(0.0) in step 1
UpareaResult(df, st) ==
    [i \in Rows(df) |->
        [df[i] EXCEPT !.uparea = st.uparea[df[i].COMID],
                      !.unitarea = IF isna(@) THEN 0 ELSE @]]

\* the whole function: the table returned, or the exception raised
compute_uparea(df) ==
    LET st == KahnRun(KahnInit(df))
    IN  IF st.raised # "" THEN [raised |-> st.raised, df |-> <<>>]
        ELSE [raised |-> "", df |-> UpareaResult(df, st)]

---------------------------------------------------------------------------
(* Utility.add_immediate_upstream *)

\* the elements of a sequence
Range(q) == {q[i] : i \in DOMAIN q}

\* `row[downID] > -0.01`: the row adds the edge (NextDownCOMID, COMID)
AddsEdge(row) == row.NextDownCOMID >= 0

RECURSIVE Successors(_, _, _)
\* list(G.successors(x)) for the edges added by the first n rows of df:
\* the COMIDs pointing to x, each once, in row order
Successors(df, x, n) ==
    IF n = 0 THEN <<>>
    ELSE LET prev == Successors(df, x, n - 1)
         IN  IF /\ AddsEdge(df[n])
                /\ df[n].NextDownCOMID = x
                /\ df[n].COMID \notin Range(prev)
             THEN Append(prev, df[n].COMID)
             ELSE prev

\* df['upstream'] of row i
UpstreamOf(df, i) == Successors(df, df[i].COMID, Len(df))

\* max_length = df['maxup'].max() (0 for an empty table), ups being the
\* column df['upstream']
MaxLength(ups) ==
    IF DOMAIN ups = {} THEN 0
    ELSE SetMax({Len(ups[i]) : i \in DOMAIN ups})

\* UpColumns without the padding
UpColumnsUnpadded(u, K) == u

\* the columns up1..upK of a row whose upstream list is u: u padded with 0
UpColumns(u, K) == [k \in 1..K |-> IF k <= Len(u) THEN u[k] ELSE 0]

\* the whole function, called on a table whose NextDownCOMID is Int64: the
\* comparison of a missing value (pd.NA) with -0.01 is pd.NA, and `if pd.NA`
\* raises TypeError
add_immediate_upstream(df) ==
    IF \E i \in Rows(df) : isna(df[i].NextDownCOMID)
    THEN [raised |-> "TypeError", df |-> <<>>]
    ELSE LET ups == [i \in Rows(df) |-> UpstreamOf(df, i)]
             K == MaxLength(ups)
         IN  [raised |-> "",
              df |-> [i \in Rows(df) |->
                        [df[i] EXCEPT !.maxup = Len(ups[i]),
                                      !.up = UpColumns(ups[i], K)]]]

---------------------------------------------------------------------------
(* The tables of the pipeline and the geometry engine's answers *)

LakeIds == 1..NumLake

\* a lake row as ingestion delivers it; flag is the value of its exorheic
\* column ("absent": the table has no such column)
LakeRow(id, flag) ==
    [LakeCOMID |-> id, unitarea |-> 2, geometry |-> "lake",
     exorheic |-> flag, COMID |-> NA, islake |-> NA]

\* a catchment row as ingestion delivers it
CatRow(id) ==
    [COMID |-> id, unitarea |-> 2, geometry |-> "polygon",
     LakeCOMID |-> NA, islake |-> NA]

\* set(lake["LakeCOMID"])
LakeIdSet(lk) == {lk[i].LakeCOMID : i \in Rows(lk)}

\* gpd.overlay(riv, lake, how="intersection"): the (COMID, LakeCOMID)
\* pairs of the pieces of river inside the lakes of table lk
Overlay(g, lk) == {p \in g.hit : p[2] \in LakeIdSet(lk)}

\* the percentage of a segment's length (of its catchment's area) left
\* outside the lakes of table lk
RatioOf(g, lk, c) ==
    IF \E p \in Overlay(g, lk) : p[1] = c THEN g.left[c] ELSE 100

---------------------------------------------------------------------------
(* ResolvableLakes *)

\* _subset_lake: centroid inside the catchments' bounding box plus margin,
\* and sjoin(lake, cat, "intersects") finds a catchment; only the columns
\* LakeCOMID, unitarea, geometry are returned
subset_lake(lk, g) ==
    LET keep(r) == g.inbox[r.LakeCOMID] /\ g.sjcat[r.LakeCOMID]
        kept == SelectSeq(lk, keep)
    IN  [i \in Rows(kept) |-> [kept[i] EXCEPT !.exorheic = "absent"]]

\* remove_inbasin_lakes removing nothing
remove_inbasin_lakesNone(lk, g) == lk

\* _remove_inbasin_lakes: lakes in exactly one piece of overlay(cat, lake)
\* are removed
remove_inbasin_lakes(lk, g) ==
    LET keep(r) == g.ncat[r.LakeCOMID] # 1 IN SelectSeq(lk, keep)

\* _keep_lakes_touching_river_endpoints: lakes that the start or end point
\* of a river with a geometry intersects
keep_lakes_touching_river_endpoints(lk, g) ==
    LET keep(r) == g.endpt[r.LakeCOMID] IN SelectSeq(lk, keep)

\* ResolvableLakes.__init__: lake_resolvable
ResolvableLakes(lk, g) ==
    keep_lakes_touching_river_endpoints(
        remove_inbasin_lakes(subset_lake(lk, g), g), g)

---------------------------------------------------------------------------
(* NetworkTopologyCorrection._riv_topology_correction *)

\* the values of the exorheic column read as exorheic: int 1, float 1.0,
\* "1", True; everything else (0, "0", False, None, NaN, other text) and
\* an absent column read as endorheic
ExorheicTrue == {"i1", "f1.0", "s1", "bTrue"}

\* is_exhoreic_flag reading every value but 0 and an absent column as
\* exorheic
is_exhoreic_flagTruthy(lk) == lk.exorheic \notin {"i0", "absent"}

\* is_exhoreic_flag(lk.get("exorheic", 0))
is_exhoreic_flag(lk) == lk.exorheic \in ExorheicTrue

\* riv_ids: the COMIDs of lake_riv whose LakeCOMID is lk_comid
RivIds(lake_riv, lk_comid) == {p[1] : p \in {q \in lake_riv : q[2] = lk_comid}}

\* fillna(float("inf")): the sort value of a lake no river intersects
Inf == MaxArea + 1

\* the notna values of column uparea in the rows of df whose COMID is in ids
UpareasOf(df, ids) ==
    {df[i].uparea : i \in {j \in Rows(df) : df[j].COMID \in ids
                                             /\ notna(df[j].uparea)}}

\* __sort_up__: the maximum uparea of the rivers intersecting the lake
SortUp(rv, lake_riv, lk_comid) ==
    LET a == UpareasOf(rv, RivIds(lake_riv, lk_comid))
    IN  IF a = {} THEN Inf ELSE SetMax(a)

\* the permutations of 1..n
Perms(n) == {p \in [1..n -> 1..n] : \A i, j \in 1..n : i # j => p[i] # p[j]}

\* SortOrders keeping the lakes in the order they came in
SortOrdersKeep(rv, lk, lake_riv) == {[i \in 1..Len(lk) |-> i]}

\* lake.sort_values("__sort_up__"): the row orders ascending in the sort
\* value (quicksort: the order among equal values is not specified); the
\* order is kept when nothing intersects
SortOrders(rv, lk, lake_riv) ==
    IF lake_riv = {} THEN {[i \in 1..Len(lk) |-> i]}
    ELSE {p \in Perms(Len(lk)) :
            \A i, j \in 1..Len(lk) :
                i < j => SortUp(rv, lake_riv, lk[p[i]].LakeCOMID)
                           <= SortUp(rv, lake_riv, lk[p[j]].LakeCOMID)}

\* maxCOMID = max(riv["COMID"].max(), cat["COMID"].max())
MaxCOMID(rv, ct) == SetMax(ComidSet(rv) \cup ComidSet(ct))

\* lake in the order p with COMID = maxCOMID + 1, ... and islake = 1
AssignCOMID(lk, p, maxCOMID) ==
    [k \in 1..Len(lk) |->
        [lk[p[k]] EXCEPT !.COMID = maxCOMID + k, !.islake = 1]]

\* LakeAsRiv storing the lake under another COMID than the one assigned
LakeAsRivShifted(l) ==
    [COMID |-> l.COMID + NumLake, NextDownCOMID |-> NA,
     unitarea |-> l.unitarea,
     uparea |-> NA, length |-> NA, geometry |-> l.geometry,
     islake |-> l.islake, LakeCOMID |-> l.LakeCOMID,
     exorheic |-> l.exorheic,
     inflow |-> NA, outflow |-> NA, inoutflow |-> NA, maxup |-> NA,
     up |-> <<>>]

\* a lake row as a row of the river table (pd.concat: the columns the
\* lake table lacks are missing)
LakeAsRiv(l) ==
    [COMID |-> l.COMID, NextDownCOMID |-> NA, unitarea |-> l.unitarea,
     uparea |-> NA, length |-> NA, geometry |-> l.geometry,
     islake |-> l.islake, LakeCOMID |-> l.LakeCOMID,
     exorheic |-> l.exorheic,
     inflow |-> NA, outflow |-> NA, inoutflow |-> NA, maxup |-> NA,
     up |-> <<>>]

\* a lake row as a row of the catchment table
LakeAsCat(l) ==
    [COMID |-> l.COMID, unitarea |-> l.unitarea, geometry |-> l.geometry,
     LakeCOMID |-> l.LakeCOMID, islake |-> l.islake]

\* riv = pd.concat([riv, lake]); inflow = outflow = inoutflow = 0
StackRiv(rv, lk) ==
    LET st == rv \o [k \in 1..Len(lk) |-> LakeAsRiv(lk[k])]
    IN  [i \in Rows(st) |->
            [st[i] EXCEPT !.inflow = 0, !.outflow = 0, !.inoutflow = 0]]

\* StackCat leaving the lakes out of the catchment table
StackCatNoLakes(ct, lk) == ct

\* cat = pd.concat([cat, lake])
StackCat(ct, lk) == ct \o [k \in 1..Len(lk) |-> LakeAsCat(lk[k])]

\* OutflowRiv taking the first row of the subset whatever its uparea
OutflowRivFirst(rv, riv_ids) ==
    LET I == {i \in Rows(rv) : rv[i].COMID \in riv_ids /\ notna(rv[i].uparea)}
    IN  rv[CHOOSE i \in I : \A j \in I : i <= j].COMID

\* OutflowRiv taking the last of the rows with the largest uparea
OutflowRivLast(rv, riv_ids) ==
    LET I == {i \in Rows(rv) : rv[i].COMID \in riv_ids /\ notna(rv[i].uparea)}
        m == SetMax({rv[i].uparea : i \in I})
        last == CHOOSE i \in I :
                    /\ rv[i].uparea = m
                    /\ \A j \in I : rv[j].uparea = m => j <= i
    IN  rv[last].COMID

\* subset.loc[subset["uparea"].idxmax(), "COMID"]: the COMID of the first
\* row, among those whose COMID is in riv_ids, with the largest uparea
OutflowRiv(rv, riv_ids) ==
    LET I == {i \in Rows(rv) : rv[i].COMID \in riv_ids /\ notna(rv[i].uparea)}
        m == SetMax({rv[i].uparea : i \in I})
        first == CHOOSE i \in I :
                    /\ rv[i].uparea = m
                    /\ \A j \in I : rv[j].uparea = m => i <= j
    IN  rv[first].COMID

\* LakeStep in which the designated outlet keeps its own next_id instead of
\* being retargeted to the lake
LakeStepOutletKept(rv, l, lake_riv) ==
    LET riv_ids == RivIds(lake_riv, l.LakeCOMID)
        outflow_riv == OutflowRiv(rv, riv_ids)
        exo == is_exhoreic_flag(l)
    IN  IF riv_ids = {} THEN rv
        ELSE [i \in Rows(rv) |->
                IF rv[i].LakeCOMID = l.LakeCOMID
                THEN [rv[i] EXCEPT !.NextDownCOMID =
                                      IF exo THEN outflow_riv ELSE Sentinel]
                ELSE IF exo /\ rv[i].COMID = outflow_riv
                THEN [rv[i] EXCEPT !.outflow = 1, !.inflow = 0]
                ELSE IF rv[i].COMID \in riv_ids
                THEN [rv[i] EXCEPT !.inflow = 1, !.NextDownCOMID = l.COMID]
                ELSE rv[i]]

\* one iteration of `for _, lk in lake.iterrows()`
LakeStep(rv, l, lake_riv) ==
    LET riv_ids == RivIds(lake_riv, l.LakeCOMID)
        a == [i \in Rows(rv) |->
                IF rv[i].COMID \in riv_ids
                THEN [rv[i] EXCEPT !.inflow = 1] ELSE rv[i]]
        b == [i \in Rows(rv) |->
                IF a[i].LakeCOMID = l.LakeCOMID
                THEN [a[i] EXCEPT !.NextDownCOMID = Sentinel] ELSE a[i]]
        c == [i \in Rows(rv) |->
                IF b[i].COMID \in riv_ids
                THEN [b[i] EXCEPT !.NextDownCOMID = l.COMID] ELSE b[i]]
        outflow_riv == OutflowRiv(c, riv_ids)
        d == [i \in Rows(rv) |->
                IF c[i].COMID = outflow_riv
                THEN [c[i] EXCEPT !.outflow = 1, !.inflow = 0] ELSE c[i]]
        e == [i \in Rows(rv) |->
                IF d[i].LakeCOMID = l.LakeCOMID
                THEN [d[i] EXCEPT !.NextDownCOMID = outflow_riv] ELSE d[i]]
    IN  IF riv_ids = {} THEN rv
        ELSE IF is_exhoreic_flag(l) THEN e
        ELSE c

RECURSIVE LakeLoop(_, _, _, _)
\* the loop over the lakes from row k on
LakeLoop(rv, lk, lake_riv, k) ==
    IF k > Len(lk) THEN rv
    ELSE LakeLoop(LakeStep(rv, lk[k], lake_riv), lk, lake_riv, k + 1)

\* ApplyRivGeometry leaving the length of a clipped segment as it was
ApplyRivGeometryNoScale(rv, g, lk) ==
    [i \in Rows(rv) |->
        LET r == rv[i]
            ratio == IF r.islake = 1 THEN 100 ELSE RatioOf(g, lk, r.COMID)
        IN  IF r.islake = 1 THEN [r EXCEPT !.geometry = "lake"]
            ELSE IF ratio = 0
            THEN [r EXCEPT !.geometry = "none", !.length = 0]
            ELSE IF ratio < 100 THEN [r EXCEPT !.geometry = "clipped"]
            ELSE r]

\* step 6, rivers: geometry and length from _riv_geometry_correction
\* (length_ratio 0: no geometry, length 0; below 1: the clipped geometry,
\* length * ratio), and a lake row takes the lake's geometry
ApplyRivGeometry(rv, g, lk) ==
    [i \in Rows(rv) |->
        LET r == rv[i]
            ratio == IF r.islake = 1 THEN 100 ELSE RatioOf(g, lk, r.COMID)
            shrunk == IF ratio = 0
                      THEN [r EXCEPT !.geometry = "none", !.length = 0]
                      ELSE IF ratio < 100
                      THEN [r EXCEPT !.geometry = "clipped",
                                     !.length = (@ * ratio) \div 100]
                      ELSE r
        IN  IF r.islake = 1 THEN [shrunk EXCEPT !.geometry = "lake"]
            ELSE shrunk]

\* step 6, catchments: geometry and unitarea from _cat_geometry_correction
ApplyCatGeometry(ct, g, lk) ==
    [i \in Rows(ct) |->
        LET r == ct[i]
            ratio == IF r.islake = 1 THEN 100 ELSE RatioOf(g, lk, r.COMID)
        IN  IF ratio = 0
            THEN [r EXCEPT !.geometry = "none", !.unitarea = 0]
            ELSE IF ratio < 100
            THEN [r EXCEPT !.geometry = "clipped",
                           !.unitarea = (@ * ratio) \div 100]
            ELSE r]

\* UnitareaFromCat storing 0 for every row
UnitareaZero(rv, ct) == [i \in Rows(rv) |-> [rv[i] EXCEPT !.unitarea = 0]]

\* riv["unitarea"] = riv["COMID"].map(cat_unit_map).fillna(0)
UnitareaFromCat(rv, ct) ==
    [i \in Rows(rv) |->
        [rv[i] EXCEPT !.unitarea =
            IF rv[i].COMID \in ComidSet(ct)
            THEN LET a == ct[LastRowOf(ct, rv[i].COMID)].unitarea
                 IN  IF isna(a) THEN 0 ELSE a
            ELSE 0]]

\* SetInoutflow with | in place of &
SetInoutflowOr(rv) ==
    [i \in Rows(rv) |->
        [rv[i] EXCEPT !.inoutflow =
            IF rv[i].inflow = 1 \/ rv[i].outflow = 1 THEN 1 ELSE 0]]

\* riv["inoutflow"] = (inflow == 1) & (outflow == 1)
SetInoutflow(rv) ==
    [i \in Rows(rv) |->
        [rv[i] EXCEPT !.inoutflow =
            IF rv[i].inflow = 1 /\ rv[i].outflow = 1 THEN 1 ELSE 0]]

\* steps 1-6 and the flags: the river table before uparea and up* are
\* recomputed, for the sort order p
RewiredRiv(rv, ct, lk, g, p) ==
    LET lake_riv == Overlay(g, lk)
        lks == AssignCOMID(lk, p, MaxCOMID(rv, ct))
        looped == LakeLoop(StackRiv(rv, lks), lks, lake_riv, 1)
        cat_out == ApplyCatGeometry(StackCat(ct, lks), g, lk)
    IN  SetInoutflow(UnitareaFromCat(ApplyRivGeometry(looped, g, lk), cat_out))

\* the whole method for the sort order p: the three tables returned, or
\* the exception raised
riv_topology_correction(rv, ct, lk, g, p) ==
    LET lks == AssignCOMID(lk, p, MaxCOMID(rv, ct))
        up == compute_uparea(RewiredRiv(rv, ct, lk, g, p))
        ups == IF up.raised # "" THEN up ELSE add_immediate_upstream(up.df)
    IN  IF ups.raised # ""
        THEN [raised |-> ups.raised, riv |-> <<>>, cat |-> <<>>, lake |-> <<>>]
        ELSE [raised |-> "", riv |-> ups.df,
              cat |-> ApplyCatGeometry(StackCat(ct, lks), g, lk),
              lake |-> lks]

---------------------------------------------------------------------------
(* compute_uparea called on a river table, one loop iteration per step *)

\* the values a NextDownCOMID of an input table takes
NextVals == {Sentinel, NA, Dangling} \cup SegIds
\* the values a unitarea of an input table takes
SeedVals == {NA} \cup (1..MaxSeed)

\* the input tables: one row per COMID 1..NumSeg, in that order
RivTable(nxt, area) == [i \in SegIds |-> RivRow(i, nxt[i], area[i], NA)]

\* compute_uparea's local state before the call
NoAcc == [nextdown |-> <<>>, uparea |-> <<>>, indegree |-> <<>>,
          heads |-> {}, queue |-> <<>>, visits |-> <<>>, raised |-> ""]

InitAcc ==
    /\ \E nxt \in [SegIds -> NextVals], area \in [SegIds -> SeedVals] :
          riv_org = RivTable(nxt, area)
    /\ riv = <<>>
    /\ cat = <<>>
    /\ lake_org = <<>>
    /\ lake = <<>>
    /\ geo = <<>>
    /\ acc = NoAcc
    /\ pc = "call"
    /\ err = ""
    /\ report = <<>>
    /\ warn = {}

\* steps 0-6: copy the table, build the dictionaries and the queue
UpareaBegin ==
    /\ pc = "call"
    /\ acc' = KahnInit(riv_org)
    /\ pc' = "loop"
    /\ UNCHANGED <<riv_org, riv, cat, lake_org, lake, geo, err, report, warn>>

\* step 7: one iteration of `while queue`
UpareaLoop ==
    /\ pc = "loop"
    /\ QueueNonEmpty(acc)
    /\ \E u \in PopChoices(acc) : acc' = KahnStep(acc, u)
    /\ UNCHANGED <<riv_org, riv, cat, lake_org, lake, geo, pc, err, report, warn>>

\* step 8: the queue is empty, the table is returned
UpareaReturn ==
    /\ pc = "loop"
    /\ acc.raised = ""
    /\ ~QueueNonEmpty(acc)
    /\ riv' = UpareaResult(riv_org, acc)
    /\ pc' = "returned"
    /\ UNCHANGED <<riv_org, cat, lake_org, lake, geo, acc, err, report, warn>>

NextAcc == UpareaBegin \/ UpareaLoop \/ UpareaReturn

SpecAcc == InitAcc /\ [][NextAcc]_vars

\* the call runs on: a statement that can execute eventually does
SpecAccFair == SpecAcc /\ WF_vars(NextAcc)

---------------------------------------------------------------------------
(* OutputChecker *)

\* _build_upstream_graph(df)[c], or set() when c is no key: the COMIDs of
\* the rows whose NextDownCOMID is c, counted when notna and > 0
UpstreamSet(df, c) ==
    {df[i].COMID : i \in {j \in Rows(df) :
        /\ notna(df[j].NextDownCOMID)
        /\ df[j].NextDownCOMID > 0
        /\ df[j].NextDownCOMID = c}}

\* OutletComids without `outlet_comids &= set(riv_org["COMID"])`
OutletComidsAll(rv, org) ==
    {rv[i].COMID : i \in {j \in Rows(rv) :
        isna(rv[j].NextDownCOMID) \/ rv[j].NextDownCOMID <= 0}}

\* outlet_comids: NextDownCOMID missing or <= 0 in rv, and a COMID of org
OutletComids(rv, org) ==
    {rv[i].COMID : i \in {j \in Rows(rv) :
        isna(rv[j].NextDownCOMID) \/ rv[j].NextDownCOMID <= 0}}
    \cap ComidSet(org)

\* the keys of `violations`
Violations(rv, org) ==
    {c \in OutletComids(rv, org) :
        ~(UpstreamSet(rv, c) \subseteq UpstreamSet(org, c))}

\* violations[c]["extra_upstream"]
ExtraUpstream(rv, org, c) == UpstreamSet(rv, c) \ UpstreamSet(org, c)

\* tol of _check_inoutflow_length is 1e-6: an integer length is at or
\* below it when it is at most 0
BadLink(row) ==
    row.inoutflow = 1 /\ (isna(row.length) \/ row.length <= 0)

\* Related collecting the NextDownCOMID only
RelatedDownOnly(row) ==
    {v \in {row.NextDownCOMID} : notna(v) /\ v > 0}

\* `related` of a bad link: its NextDownCOMID and the values of every
\* column whose name starts with "up" (uparea, up1..upK), when notna and > 0
Related(row) ==
    {v \in {row.NextDownCOMID, row.uparea} \cup Range(row.up) :
        notna(v) /\ v > 0}

\* lakes_comids: the COMIDs of the lake rows of rv among `related`
LakesComids(rv, row) ==
    {rv[i].COMID : i \in {j \in Rows(rv) :
        rv[j].COMID \in Related(row) /\ rv[j].islake = 1}}

\* the rows _check_inoutflow_length prints a warning for
Warnings(rv) ==
    {rv[i].COMID : i \in {j \in Rows(rv) :
        BadLink(rv[j]) /\ Cardinality(LakesComids(rv, rv[j])) >= 2}}

---------------------------------------------------------------------------
(* The rewriter called on the tables of ingestion, then the checker *)

RECURSIVE DownWalk(_, _, _)
\* the COMID reached from c after k steps along NextDownCOMID in table t
\* whose row i has COMID i (the sentinel once the walk has left the table)
DownWalk(t, c, k) ==
    IF k = 0 \/ c \notin Rows(t) THEN c
    ELSE DownWalk(t, t[c].NextDownCOMID, k - 1)

\* the values a NextDownCOMID of an ingested river table takes
NextIn == {Sentinel} \cup SegIds
\* the values of the exorheic column of an ingested lake table
FlagIn == {"i1", "i0", "sjunk"}

\* the lake tables: rows LakeCOMID 1..n, in that order
LakeTable(n, flag) == [k \in 1..n |-> LakeRow(k, flag[k])]

\* the catchment table: one catchment per segment
CatTable == [i \in SegIds |-> CatRow(i)]

\* the geometry engine's answers: the river pieces inside lakes (hit), the
\* percentage left of every segment a lake covers (every covered segment
\* is clipped to half), and the filter's predicates
GeoAnswers(n) ==
    {[hit |-> h, left |-> [c \in SegIds |-> l],
      inbox |-> [k \in 1..n |-> TRUE], sjcat |-> [k \in 1..n |-> TRUE],
      ncat |-> [k \in 1..n |-> 2], endpt |-> [k \in 1..n |-> TRUE]] :
        h \in SUBSET (SegIds \X (1..n)),
        l \in {50}}

\* the ingested river tables: one row per COMID 1..NumSeg, every
\* NextDownCOMID the sentinel or a COMID of the table, no cycle; unitarea
\* is the catchment's (InputChecker._pass_unitarea)
RivTables(Areas) ==
    {t \in {[i \in SegIds |-> RivRow(i, nxt[i], CatRow(i).unitarea, area[i])] :
                nxt \in [SegIds -> NextIn], area \in Areas} :
        \A c \in SegIds :
            \A k \in 1..NumSeg : ~(DownWalk(t, c, k) = c)}

RivInputs == RivTables([SegIds -> 1..MaxArea])

Init ==
    /\ riv_org \in RivInputs
    /\ riv = riv_org
    /\ cat = CatTable
    /\ \E n \in 0..NumLake :
          /\ \E flag \in [1..n -> FlagIn] : lake_org = LakeTable(n, flag)
          /\ geo \in GeoAnswers(n)
    /\ lake = lake_org
    /\ acc = NoAcc
    /\ pc = "resolvable"
    /\ err = ""
    /\ report = <<>>
    /\ warn = {}

\* Correct leaving the tables as rewired so far in the caller's attributes
\* when the method raises
CorrectPartial ==
    /\ pc = "resolvable"
    /\ \E p \in SortOrders(riv, lake, Overlay(geo, lake)) :
        \E out \in {riv_topology_correction(riv, cat, lake, geo, p)} :
              IF out.raised # ""
              THEN /\ err' = out.raised
                   /\ pc' = "error"
                   /\ riv' = RewiredRiv(riv, cat, lake, geo, p)
                   /\ lake' = AssignCOMID(lake, p, MaxCOMID(riv, cat))
                   /\ cat' = ApplyCatGeometry(StackCat(cat, lake'), geo, lake)
              ELSE /\ riv' = out.riv
                   /\ cat' = out.cat
                   /\ lake' = out.lake
                   /\ pc' = "corrected"
                   /\ err' = ""
    /\ UNCHANGED <<riv_org, lake_org, geo, acc, report, warn>>

\* NetworkTopologyCorrection(cat, lake, riv) and the assignment of its
\* three tables (BurnLakes step 4); an exception leaves the tables as
\* they were
Correct ==
    /\ pc = "resolvable"
    /\ \E p \in SortOrders(riv, lake, Overlay(geo, lake)) :
        \E out \in {riv_topology_correction(riv, cat, lake, geo, p)} :
              IF out.raised # ""
              THEN /\ err' = out.raised
                   /\ pc' = "error"
                   /\ UNCHANGED <<riv, cat, lake>>
              ELSE /\ riv' = out.riv
                   /\ cat' = out.cat
                   /\ lake' = out.lake
                   /\ pc' = "corrected"
                   /\ err' = ""
    /\ UNCHANGED <<riv_org, lake_org, geo, acc, report, warn>>

\* OutputChecker(riv, riv_org, lake): _check_graph raises on a violation
\* and names one of them; otherwise _check_inoutflow_length prints its
\* warnings
Check ==
    /\ pc = "corrected"
    /\ IF Violations(riv, riv_org) # {}
       THEN /\ \E c \in Violations(riv, riv_org) :
                  report' = <<c, ExtraUpstream(riv, riv_org, c)>>
            /\ err' = "ValueError"
            /\ pc' = "error"
            /\ warn' = warn
       ELSE /\ warn' = Warnings(riv)
            /\ pc' = "checked"
            /\ UNCHANGED <<err, report>>
    /\ UNCHANGED <<riv_org, riv, cat, lake_org, lake, geo, acc>>

Next == Correct \/ Check

Spec == Init /\ [][Next]_vars

---------------------------------------------------------------------------
(* BurnLakes from the ingested tables: ResolvableLakes, then
   NetworkTopologyCorrection, then OutputChecker *)

\* what the geometry engine can answer for one lake in ResolvableLakes:
\* kept by every step, or dropped by exactly one of them
LakeClasses ==
    {[inbox |-> TRUE,  sjcat |-> TRUE,  ncat |-> 2, endpt |-> TRUE],
     [inbox |-> FALSE, sjcat |-> TRUE,  ncat |-> 2, endpt |-> TRUE],
     [inbox |-> TRUE,  sjcat |-> FALSE, ncat |-> 0, endpt |-> TRUE],
     [inbox |-> TRUE,  sjcat |-> TRUE,  ncat |-> 1, endpt |-> TRUE],
     [inbox |-> TRUE,  sjcat |-> TRUE,  ncat |-> 2, endpt |-> FALSE]}

GeoPipe(n) ==
    {[hit |-> h, left |-> [c \in SegIds |-> 50],
      inbox |-> [k \in 1..n |-> cl[k].inbox],
      sjcat |-> [k \in 1..n |-> cl[k].sjcat],
      ncat |-> [k \in 1..n |-> cl[k].ncat],
      endpt |-> [k \in 1..n |-> cl[k].endpt]] :
        h \in SUBSET (SegIds \X (1..n)),
        cl \in [1..n -> LakeClasses]}

\* the exorheic column of the ingested lakes
FlagPipe == {"i1", "i0"}

\* the ingested river tables, the upstream areas all different
RivPipe == RivTables({[c \in SegIds |-> (c % MaxArea) + 1]})

InitPipe ==
    /\ riv_org \in RivPipe
    /\ riv = riv_org
    /\ cat = CatTable
    /\ \E n \in 0..NumLake :
          /\ \E flag \in [1..n -> FlagPipe] : lake_org = LakeTable(n, flag)
          /\ geo \in GeoPipe(n)
    /\ lake = lake_org
    /\ acc = NoAcc
    /\ pc = "loaded"
    /\ err = ""
    /\ report = <<>>
    /\ warn = {}

\* ResolvableLakes(cat, riv, lake, margin=2.0) and
\* self.lake = resolver.lake_resolvable (BurnLakes step 3)
Resolve ==
    /\ pc = "loaded"
    /\ lake' = ResolvableLakes(lake, geo)
    /\ pc' = "resolvable"
    /\ UNCHANGED <<riv_org, riv, cat, lake_org, geo, acc, err, report, warn>>

NextPipe == Resolve \/ Correct \/ Check

SpecPipe == InitPipe /\ [][NextPipe]_vars

---------------------------------------------------------------------------
(* _riv_topology_correction step by step: riv, cat and lake are the
   method's local tables (its copies of the caller's), then OutputChecker *)

\* the geometry engine's answers, every covered segment and catchment
\* fully covered (0 left) or clipped to half
GeoRw(n) ==
    {[hit |-> h, left |-> [c \in SegIds |-> l],
      inbox |-> [k \in 1..n |-> TRUE], sjcat |-> [k \in 1..n |-> TRUE],
      ncat |-> [k \in 1..n |-> 2], endpt |-> [k \in 1..n |-> TRUE]] :
        h \in SUBSET (SegIds \X (1..n)),
        l \in {0, 50}}

InitRw ==
    /\ riv_org \in RivPipe
    /\ riv = riv_org
    /\ cat = CatTable
    /\ \E n \in 0..NumLake :
          /\ \E flag \in [1..n -> FlagIn] : lake_org = LakeTable(n, flag)
          /\ geo \in GeoRw(n)
    /\ lake = lake_org
    /\ acc = NoAcc
    /\ pc = "resolvable"
    /\ err = ""
    /\ report = <<>>
    /\ warn = {}

\* lines 122-157: the lakes sorted and given their COMID
RwSort ==
    /\ pc = "resolvable"
    /\ \E p \in SortOrders(riv, lake, Overlay(geo, lake)) :
          lake' = AssignCOMID(lake, p, MaxCOMID(riv, cat))
    /\ pc' = "sorted"
    /\ UNCHANGED <<riv_org, riv, cat, lake_org, geo, acc, err, report, warn>>

\* lines 161-267: the lakes stacked into riv and cat, the loop over the
\* lakes, geometry, length, unitarea and inoutflow
RwRewire ==
    /\ pc = "sorted"
    /\ riv' = RewiredRiv(riv, cat, lake, geo, [k \in 1..Len(lake) |-> k])
    /\ cat' = ApplyCatGeometry(StackCat(cat, lake), geo, lake)
    /\ pc' = "rewired"
    /\ UNCHANGED <<riv_org, lake_org, lake, geo, acc, err, report, warn>>

\* lines 272-276: uparea and up* recomputed, the tables returned
RwFinish ==
    /\ pc = "rewired"
    /\ \E up \in {compute_uparea(riv)} :
        \E ups \in {IF up.raised # "" THEN up
                     ELSE add_immediate_upstream(up.df)} :
            IF ups.raised # ""
            THEN /\ err' = ups.raised
                 /\ pc' = "error"
                 /\ riv' = riv
            ELSE /\ riv' = ups.df
                 /\ pc' = "corrected"
                 /\ err' = ""
    /\ UNCHANGED <<riv_org, cat, lake_org, lake, geo, acc, report, warn>>

NextRw == RwSort \/ RwRewire \/ RwFinish \/ Check

SpecRw == InitRw /\ [][NextRw]_vars

---------------------------------------------------------------------------
(* compute_uparea followed by add_immediate_upstream on a river table, as
   in lines 272-274 of _riv_topology_correction *)

InitIdx == InitAcc

\* riv = Utility.compute_uparea(riv)
Accumulate ==
    /\ pc = "call"
    /\ \E out \in {compute_uparea(riv_org)} :
          IF out.raised # ""
          THEN /\ err' = out.raised /\ pc' = "error" /\ riv' = riv
          ELSE /\ riv' = out.df /\ pc' = "returned" /\ err' = ""
    /\ UNCHANGED <<riv_org, cat, lake_org, lake, geo, acc, report, warn>>

\* riv = Utility.add_immediate_upstream(riv, mapping)
UpstreamIndex ==
    /\ pc = "returned"
    /\ \E out \in {add_immediate_upstream(riv)} :
          IF out.raised # ""
          THEN /\ err' = out.raised /\ pc' = "error" /\ riv' = riv
          ELSE /\ riv' = out.df /\ pc' = "indexed" /\ err' = ""
    /\ UNCHANGED <<riv_org, cat, lake_org, lake, geo, acc, report, warn>>

NextIdx == Accumulate \/ UpstreamIndex

SpecIdx == InitIdx /\ [][NextIdx]_vars

---------------------------------------------------------------------------
(* compute_uparea followed by add_immediate_upstream on tables whose
   COMIDs are any integers *)

\* the smallest COMID of a table
EdgeBases == {-1, 0, 1}

\* the tables: NumSeg rows with consecutive COMIDs from base on, every
\* NextDownCOMID the sentinel or a COMID of the table
EdgeTables ==
    UNION {{[i \in SegIds |-> RivRow(b + i - 1, nxt[i], 1, NA)] :
                nxt \in [SegIds -> {Sentinel} \cup (b..(b + NumSeg - 1))]} :
           b \in EdgeBases}

InitEdge ==
    /\ riv_org \in EdgeTables
    /\ riv = <<>>
    /\ cat = <<>>
    /\ lake_org = <<>>
    /\ lake = <<>>
    /\ geo = <<>>
    /\ acc = NoAcc
    /\ pc = "call"
    /\ err = ""
    /\ report = <<>>
    /\ warn = {}

NextEdge == Accumulate \/ UpstreamIndex

SpecEdge == InitEdge /\ [][NextEdge]_vars

---------------------------------------------------------------------------
(* _riv_topology_correction step by step with one lake, its exorheic
   column holding any kind of value *)

\* the values of the exorheic column: int, float, str and bool forms of 1
\* and 0, None, NaN, a text that is no number, and no column at all
FlagAll ==
    {"i1", "f1.0", "s1", "bTrue", "i0", "f0.0", "s0", "bFalse",
     "None", "NaN", "sjunk", "absent"}

InitOne ==
    /\ riv_org \in RivInputs
    /\ riv = riv_org
    /\ cat = CatTable
    /\ \E flag \in [1..1 -> FlagAll] : lake_org = LakeTable(1, flag)
    /\ geo \in GeoAnswers(1)
    /\ lake = lake_org
    /\ acc = NoAcc
    /\ pc = "resolvable"
    /\ err = ""
    /\ report = <<>>
    /\ warn = {}

SpecOne == InitOne /\ [][NextRw]_vars

---------------------------------------------------------------------------
(* OutputChecker on any pair of tables *)

\* the number of original segments in the tables handed to OutputChecker
NumChk == 3

ChkIds == 1..NumChk

\* the one node of the corrected table that the original table lacks
ChkLake == NumChk + 1

\* original tables: every NextDownCOMID the sentinel or a COMID
ChkOrgTables ==
    {[i \in ChkIds |-> RivRow(i, nxt[i], NA, 1)] :
        nxt \in [ChkIds -> {Sentinel} \cup ChkIds]}

\* an id no row of the corrected table has
ChkDangling == ChkLake + 1

\* corrected tables: the original COMIDs and one new node, NextDownCOMID
\* the sentinel, missing, 0, a COMID or an id outside the table
ChkNewTables ==
    {[i \in 1..ChkLake |->
        [RivRow(i, nxt[i], NA, 1) EXCEPT !.inflow = 0, !.outflow = 0,
                                        !.inoutflow = 0]] :
        nxt \in [1..ChkLake ->
                    {Sentinel, NA, 0, ChkDangling} \cup (1..ChkLake)]}

InitChk ==
    /\ riv_org \in ChkOrgTables
    /\ riv \in ChkNewTables
    /\ cat = <<>>
    /\ lake_org = <<>>
    /\ lake = <<>>
    /\ geo = [hit |-> {}, left |-> <<>>, inbox |-> <<>>, sjcat |-> <<>>,
              ncat |-> <<>>, endpt |-> <<>>]
    /\ acc = NoAcc
    /\ pc = "corrected"
    /\ err = ""
    /\ report = <<>>
    /\ warn = {}

NextChk == Check

SpecChk == InitChk /\ [][NextChk]_vars

---------------------------------------------------------------------------
(* OutputChecker on tables with lake nodes and flagged segments *)

\* the lake table with COMIDs assigned after the segments'
ChkBLakes ==
    AssignCOMID(LakeTable(NumLake, [k \in 1..NumLake |-> "i0"]),
                [k \in 1..NumLake |-> k], NumSeg)

ChkBLakeIds == {ChkBLakes[k].COMID : k \in Rows(ChkBLakes)}

\* corrected tables: every segment points to the sentinel, a segment or a
\* lake node, is flagged inoutflow or not, and has an upstream area that
\* is 1 or, as a number, the COMID of the first lake node; every segment
\* has length len; the lake nodes are terminal; maxup and up1..upK are
\* the ones add_immediate_upstream writes
ChkBTables ==
    {add_immediate_upstream(
        [i \in SegIds |->
            [RivRow(i, nxt[i], 2, area[i]) EXCEPT
                !.inflow = io[i], !.outflow = io[i], !.inoutflow = io[i],
                !.length = len]]
        \o [k \in Rows(ChkBLakes) |->
               [LakeAsRiv(ChkBLakes[k]) EXCEPT
                   !.NextDownCOMID = Sentinel, !.uparea = 2,
                   !.inflow = 0, !.outflow = 0, !.inoutflow = 0]]).df :
        nxt \in [SegIds -> {Sentinel} \cup SegIds \cup ChkBLakeIds],
        area \in [SegIds -> {1, ChkBLakes[1].COMID}],
        io \in [SegIds -> {0, 1}],
        len \in {0, 2}}

\* the original table of a corrected one: its segments, those pointing to
\* a lake node being outlets
ChkBOrg(rv) ==
    [i \in SegIds |->
        RivRow(i, IF rv[i].NextDownCOMID \in ChkBLakeIds
                  THEN Sentinel ELSE rv[i].NextDownCOMID, 2, 1)]

InitChkB ==
    /\ riv \in ChkBTables
    /\ riv_org = ChkBOrg(riv)
    /\ cat = <<>>
    /\ lake_org = <<>>
    /\ lake = ChkBLakes
    /\ geo = [hit |-> {}, left |-> <<>>, inbox |-> <<>>, sjcat |-> <<>>,
              ncat |-> <<>>, endpt |-> <<>>]
    /\ acc = NoAcc
    /\ pc = "corrected"
    /\ err = ""
    /\ report = <<>>
    /\ warn = {}

NextChkB == Check

SpecChkB == InitChkB /\ [][NextChkB]_vars

---------------------------------------------------------------------------
(* Graph notions the properties are stated in *)

RECURSIVE Walk(_, _, _)
\* the node reached from c after k steps along the map nd (NA: fell off)
Walk(nd, c, k) ==
    IF k = 0 \/ isna(c) \/ c \notin DOMAIN nd THEN
        (IF isna(c) \/ c \in DOMAIN nd THEN c ELSE NA)
    ELSE Walk(nd, nd[c], k - 1)

\* c lies on a cycle of nd
OnCycle(nd, c) == \E k \in 1..Cardinality(DOMAIN nd) : Walk(nd, c, k) = c

\* nd has no cycle: from every node the walk falls off
AcyclicMap(nd) == \A c \in DOMAIN nd : ~OnCycle(nd, c)

\* the downstream map of a table as the spec reads it: sentinel, missing
\* and dangling values mean "no downstream"
DownMap(df) ==
    [c \in ComidSet(df) |->
        LET d == df[LastRowOf(df, c)].NextDownCOMID
        IN  IF d \in ComidSet(df) THEN d ELSE NA]

\* the uparea column of a table as a map COMID -> uparea
UpareaOf(df) == [c \in ComidSet(df) |-> df[LastRowOf(df, c)].uparea]

\* the seed (own unit area, missing = 0) of node c
SeedOf(df, c) ==
    LET a == df[LastRowOf(df, c)].unitarea IN IF isna(a) THEN 0 ELSE a

\* the nodes whose next_id is n
ChildrenOf(df, n) ==
    {df[i].COMID : i \in {j \in Rows(df) : df[j].NextDownCOMID = n}}

\* table df with the next_id of node x set to v
WithNext(df, x, v) ==
    [i \in Rows(df) |->
        IF df[i].COMID = x THEN [df[i] EXCEPT !.NextDownCOMID = v] ELSE df[i]]

---------------------------------------------------------------------------
(* Properties of compute_uparea (SpecAcc) *)

\* C1: on a table whose cleaned downstream graph is acyclic, the returned
\* uparea of every node is its seed plus the sum of the uparea of the nodes
\* whose next_id is that node, and every node was dequeued exactly once.
C1_Accumulation ==
    (pc = "returned" /\ AcyclicMap(DownMap(riv_org))) =>
        /\ \A n \in ComidSet(riv_org) :
              UpareaOf(riv)[n] =
                  SeedOf(riv_org, n) + SetSum(ChildrenOf(riv_org, n), UpareaOf(riv))
        /\ \A n \in ComidSet(riv_org) : acc.visits[n] = 1

\* C1 witness: an acyclic table returned in which some node has two
\* children and some node's uparea exceeds its own seed
C1_Witness ==
    /\ pc = "returned"
    /\ AcyclicMap(DownMap(riv_org))
    /\ \E n \in ComidSet(riv_org) : Cardinality(ChildrenOf(riv_org, n)) >= 2
    /\ \E n \in ComidSet(riv_org) : UpareaOf(riv)[n] > SeedOf(riv_org, n)

\* the terminal encodings of "x has no downstream"
TerminalEncodings == {Sentinel, NA, Dangling}

\* C2: for a node x whose next_id is one of -9999, null, or an id not in
\* the table, the call with any other of the three encodings returns (no
\* exception) and gives every other node the same uparea.
C2_SentinelEquivalence ==
    pc = "returned" =>
        \A i \in Rows(riv_org) :
            riv_org[i].NextDownCOMID \in TerminalEncodings =>
                \A v \in TerminalEncodings :
                    LET other == compute_uparea(WithNext(riv_org, riv_org[i].COMID, v))
                    IN  /\ other.raised = ""
                        /\ \A n \in ComidSet(riv_org) \ {riv_org[i].COMID} :
                              UpareaOf(other.df)[n] = UpareaOf(riv)[n]

\* C2 witness: a returned table with a node x whose next_id is a dangling
\* id and which has a downstream-connected neighbour upstream of it
C2_Witness ==
    /\ pc = "returned"
    /\ \E i \in Rows(riv_org) :
          /\ riv_org[i].NextDownCOMID = Dangling
          /\ ChildrenOf(riv_org, riv_org[i].COMID) # {}

\* C3 (as claimed): a table is only ever returned when its downstream graph
\* has no cycle, i.e. no node is left with residual in-degree > 0
C3_CycleIsReported ==
    pc = "returned" =>
        /\ AcyclicMap(DownMap(riv_org))
        /\ \A n \in ComidSet(riv_org) : acc.indegree[n] = 0

---------------------------------------------------------------------------
(* Notions the properties of the rewriter are stated in *)

\* the row of table df with COMID c
RowOf(df, c) == df[LastRowOf(df, c)]

\* the set R of a lake: the original segments intersecting it
TouchedBy(lk_comid) == RivIds(Overlay(geo, lake), lk_comid)

\* the lakes (rows of the corrected lake table) segment s intersects
LakesOf(s) == {k \in Rows(lake) : s \in TouchedBy(lake[k].LakeCOMID)}

\* the upstream area of segment s in the input table
InputUparea(s) == RowOf(riv_org, s).uparea

\* next_id is terminal: the sentinel or missing
Terminal(d) == d = Sentinel \/ isna(d)

\* the exorheic flag of lake record l is false ("i0"), unparseable
\* ("sjunk") or missing ("absent")
FlagNotExorheic(l) == l.exorheic \in {"i0", "sjunk", "absent"}

\* the lake of row k designates segment s as its outlet
OutletOf(k, s) ==
    /\ is_exhoreic_flag(lake[k])
    /\ RowOf(riv, lake[k].COMID).NextDownCOMID = s

---------------------------------------------------------------------------
(* Properties of NetworkTopologyCorrection (Spec) *)

\* C4 (as claimed): the corrected river graph of an acyclic input has no
\* cycle: following next_id from any node reaches a terminal
C4_OutputAcyclic ==
    (pc = "corrected" /\ AcyclicMap(DownMap(riv_org))) =>
        AcyclicMap(DownMap(riv))

\* C5: an exorheic lake with non-empty R points to a segment of R of
\* maximum input upstream area, and that segment has outflow = 1; when no
\* segment of R intersects another lake, the outlet has inflow = 0 and
\* every other segment of R has inflow = 1 and outflow = 0.
C5_ExorheicOutlet ==
    pc = "corrected" =>
        \A k \in Rows(lake) :
            LET R == TouchedBy(lake[k].LakeCOMID)
                out == RowOf(riv, lake[k].COMID).NextDownCOMID
            IN  (is_exhoreic_flag(lake[k]) /\ R # {}) =>
                  /\ out \in R
                  /\ \A s \in R : InputUparea(s) <= InputUparea(out)
                  /\ RowOf(riv, out).outflow = 1
                  /\ (\A s \in R : LakesOf(s) = {k}) =>
                        /\ RowOf(riv, out).inflow = 0
                        /\ \A s \in R \ {out} :
                              /\ RowOf(riv, s).inflow = 1
                              /\ RowOf(riv, s).outflow = 0

\* C5 witness: an exorheic lake touching three segments of three different
\* upstream areas, none of them touching another lake
C5_Witness ==
    /\ pc = "corrected"
    /\ \E k \in Rows(lake) :
          LET R == TouchedBy(lake[k].LakeCOMID)
          IN  /\ is_exhoreic_flag(lake[k])
              /\ Cardinality(R) = 3
              /\ Cardinality({InputUparea(s) : s \in R}) = 3
              /\ \A s \in R : LakesOf(s) = {k}
              /\ RowOf(riv, lake[k].COMID).NextDownCOMID # 1

\* C6 (as claimed): a lake whose flag does not read as exorheic and whose R
\* is non-empty has next_id = -9999, every segment of R has inflow = 1,
\* and no segment of R has its outflow = 1 from this lake
C6_EndorheicAllInflow ==
    pc = "corrected" =>
        \A k \in Rows(lake) :
            LET R == TouchedBy(lake[k].LakeCOMID)
            IN  (FlagNotExorheic(lake[k]) /\ R # {}) =>
                  /\ RowOf(riv, lake[k].COMID).NextDownCOMID = Sentinel
                  /\ \A s \in R : RowOf(riv, s).inflow = 1
                  /\ \A s \in R : RowOf(riv, s).outflow = 1 =>
                        \E j \in Rows(lake) \ {k} : OutletOf(j, s)

\* C6 (amended): as C6, but a segment of R has inflow = 1 unless an
\* exorheic lake processed later (larger node id) designates it as outlet
C6_EndorheicInflow ==
    pc = "corrected" =>
        \A k \in Rows(lake) :
            LET R == TouchedBy(lake[k].LakeCOMID)
            IN  (FlagNotExorheic(lake[k]) /\ R # {}) =>
                  /\ RowOf(riv, lake[k].COMID).NextDownCOMID = Sentinel
                  /\ \A s \in R :
                        \/ RowOf(riv, s).inflow = 1
                        \/ \E j \in Rows(lake) : j > k /\ OutletOf(j, s)
                  /\ \A s \in R : RowOf(riv, s).outflow = 1 =>
                        \E j \in Rows(lake) \ {k} : OutletOf(j, s)

\* C6 witness: a lake with an unparseable flag touching segments of
\* different upstream areas, one of which kept inflow = 1 and another is
\* the outlet of an exorheic lake processed later
C6_Witness ==
    /\ pc = "corrected"
    /\ \E k \in Rows(lake) :
          LET R == TouchedBy(lake[k].LakeCOMID)
          IN  /\ lake[k].exorheic = "sjunk"
              /\ Cardinality({InputUparea(s) : s \in R}) >= 2
              /\ \E s \in R : RowOf(riv, s).inflow = 1
              /\ \E s \in R : \E j \in Rows(lake) :
                    j > k /\ OutletOf(j, s) /\ RowOf(riv, s).inflow = 0

\* C7 (as claimed): every segment intersecting a lake has that lake's node
\* id as next_id, also when it intersects other lakes
C7_DrainsIntoEveryLake ==
    pc = "corrected" =>
        \A k \in Rows(lake) :
            \A s \in TouchedBy(lake[k].LakeCOMID) :
                RowOf(riv, s).NextDownCOMID = lake[k].COMID

\* C7 (amended): every segment intersecting a lake has as next_id the node
\* id of the lake processed last (largest node id) among those it
\* intersects; it is that lake's id when it intersects no other lake
C7_DrainsIntoLastLake ==
    pc = "corrected" =>
        \A s \in ComidSet(riv_org) :
            LakesOf(s) # {} =>
                RowOf(riv, s).NextDownCOMID
                    = SetMax({lake[k].COMID : k \in LakesOf(s)})

\* C7 witness: a segment intersecting two lakes, one of them exorheic with
\* this segment as its outlet
C7_Witness ==
    /\ pc = "corrected"
    /\ \E s \in ComidSet(riv_org) :
          /\ Cardinality(LakesOf(s)) = 2
          /\ \E k \in LakesOf(s) : OutletOf(k, s)

\* C9: a node that is an outlet of the corrected table and exists in the
\* original table has no upstream node it did not have in the original
\* table, and Check A finds no violation
C9_NoInventedUpstream ==
    pc = "corrected" =>
        /\ \A c \in ComidSet(riv) \cap ComidSet(riv_org) :
              Terminal(RowOf(riv, c).NextDownCOMID) =>
                  ChildrenOf(riv, c) \subseteq ChildrenOf(riv_org, c)
        /\ Violations(riv, riv_org) = {}

\* C9 witness: an original outlet that kept one upstream node and lost
\* another to an exorheic lake
C9_Witness ==
    /\ pc = "corrected"
    /\ \E c \in ComidSet(riv_org) :
          /\ Terminal(RowOf(riv, c).NextDownCOMID)
          /\ ChildrenOf(riv, c) # {}
          /\ ChildrenOf(riv, c) # ChildrenOf(riv_org, c)
    /\ \E k \in Rows(lake) : is_exhoreic_flag(lake[k])

---------------------------------------------------------------------------
(* Properties of the pipeline (SpecPipe) and of OutputChecker (SpecChk) *)

\* C8 (as claimed): every lake record ResolvableLakes returns is an input
\* lake record with all its fields unchanged, its exorheic flag included
C8_FilterOnlySelects ==
    pc = "resolvable" =>
        \A k \in Rows(lake) : \E j \in Rows(lake_org) : lake[k] = lake_org[j]

\* the nodes Check A is about: outlets of the corrected table (next_id
\* missing or <= 0) that exist in the original table and have an upstream
\* node in the corrected table that they lack in the original table
Offending ==
    {c \in ComidSet(riv) \cap ComidSet(riv_org) :
        /\ \/ isna(RowOf(riv, c).NextDownCOMID)
           \/ RowOf(riv, c).NextDownCOMID <= 0
        /\ ~(ChildrenOf(riv, c) \subseteq ChildrenOf(riv_org, c))}

\* C10: Check A raises ValueError exactly when there is an offending node;
\* the error reports one offending node with its extra upstream ids, and
\* never a node absent from the original table
C10_CheckA ==
    pc \in {"checked", "error"} =>
        /\ (err = "ValueError") <=> (Offending # {})
        /\ (err = "ValueError") =>
              /\ report[1] \in Offending
              /\ report[1] \in ComidSet(riv_org)
              /\ report[2] = ChildrenOf(riv, report[1])
                                 \ ChildrenOf(riv_org, report[1])

\* C10 witness: Check A raised while a new node, absent from the original
\* table, is an outlet with upstream nodes
C10_Witness ==
    /\ pc = "error"
    /\ err = "ValueError"
    /\ \E c \in ComidSet(riv) \ ComidSet(riv_org) :
          /\ Terminal(RowOf(riv, c).NextDownCOMID)
          /\ ChildrenOf(riv, c) # {}

---------------------------------------------------------------------------
(* Properties settled with the rewriter's output tables (Spec) *)

\* the river table is 1->3, 2->3, 3->terminal
IsConfluence(t) ==
    /\ ComidSet(t) = {1, 2, 3}
    /\ RowOf(t, 1).NextDownCOMID = 3
    /\ RowOf(t, 2).NextDownCOMID = 3
    /\ Terminal(RowOf(t, 3).NextDownCOMID)

\* C11 (as claimed): for rivers 1->3, 2->3, 3->terminal and one lake
\* touching segments 1 and 2, the upstream set of node 3 after the rewrite
\* is exactly {lake node}
C11_LakeFeedsConfluence ==
    (/\ pc = "corrected"
     /\ IsConfluence(riv_org)
     /\ Len(lake) = 1
     /\ TouchedBy(lake[1].LakeCOMID) = {1, 2}) =>
        /\ ChildrenOf(riv, 3) = {lake[1].COMID}
        /\ {u \in Range(RowOf(riv, 3).up) : u # 0} = {lake[1].COMID}

\* the stepwise rewriter ends with the tables the whole method returns
StepwiseAgrees ==
    (pc = "corrected" /\ lake # <<>>) =>
        \E p \in SortOrders(riv_org, lake_org, Overlay(geo, lake_org)) :
            LET out == riv_topology_correction(riv_org, CatTable, lake_org, geo, p)
            IN  out.raised = "" /\ out.riv = riv /\ out.cat = cat /\ out.lake = lake

---------------------------------------------------------------------------
(* Properties of the rewriter's steps (SpecRw) *)

\* the node ids given to the lakes
LakeNodeIds == {lake[k].COMID : k \in Rows(lake)}

\* C12: with equal input id sets, after the rewrite the river table's and
\* the catchment table's id sets are equal, both are the input id set
\* plus one new id per lake handed to the rewriter, the rows of the new ids
\* are tagged islake = 1, and no original id is removed
C12_IdentifierStability ==
    (/\ pc \in {"rewired", "corrected", "checked"}
     /\ ComidSet(CatTable) = ComidSet(riv_org)) =>
        /\ ComidSet(riv) = ComidSet(cat)
        /\ ComidSet(riv) = ComidSet(riv_org) \cup LakeNodeIds
        /\ LakeNodeIds \cap ComidSet(riv_org) = {}
        /\ Cardinality(LakeNodeIds) = Len(lake_org)
        /\ Len(riv) = Len(riv_org) + Len(lake_org)
        /\ Len(cat) = Len(riv)
        /\ \A i \in Rows(riv) :
              (riv[i].islake = 1) <=> (riv[i].COMID \in LakeNodeIds)
        /\ \A i \in Rows(cat) :
              (cat[i].islake = 1) <=> (cat[i].COMID \in LakeNodeIds)

\* C12 witness: two lakes were inserted and a fully submerged segment is
\* still in both tables
C12_Witness ==
    /\ pc = "corrected"
    /\ Len(lake) = 2
    /\ \E c \in ComidSet(riv_org) :
          /\ RowOf(riv, c).geometry = "none"
          /\ RowOf(riv, c).length = 0
          /\ RowOf(cat, c).unitarea = 0

\* the largest input upstream area among the segments intersecting the
\* lake of row k (of a lake some segment intersects)
MaxTouchedArea(k) ==
    SetMax({InputUparea(c) : c \in TouchedBy(lake[k].LakeCOMID)})

\* the lake of row i may come before the lake of row j: its largest
\* touched area is not greater, a lake nothing intersects being last
MayPrecede(i, j) ==
    \/ TouchedBy(lake[j].LakeCOMID) = {}
    \/ /\ TouchedBy(lake[i].LakeCOMID) # {}
       /\ MaxTouchedArea(i) <= MaxTouchedArea(j)

\* C13: the lakes are ordered ascending by the maximum upstream area of
\* the segments intersecting them (lakes without one last), the k-th lake
\* receives node id M + k, M being the largest id of the river and
\* catchment tables; the lake ids exceed every earlier id and are distinct
C13_LakeIdAssignment ==
    pc = "sorted" =>
        LET M == SetMax(ComidSet(riv_org) \cup ComidSet(CatTable))
        IN  /\ Len(lake) = Len(lake_org)
            /\ {lake[k].LakeCOMID : k \in Rows(lake)}
                  = {lake_org[k].LakeCOMID : k \in Rows(lake_org)}
            /\ \A i, j \in Rows(lake) : i < j => MayPrecede(i, j)
            /\ \A k \in Rows(lake) : lake[k].COMID = M + k
            /\ \A k \in Rows(lake) :
                  \A c \in ComidSet(riv_org) \cup ComidSet(CatTable) :
                      lake[k].COMID > c
            /\ \A i, j \in Rows(lake) :
                  i # j => lake[i].COMID # lake[j].COMID

\* C13 witness: the second input lake is first after the sort because the
\* segments it touches have the smaller maximum upstream area
C13_Witness ==
    /\ pc = "sorted"
    /\ Len(lake) = 2
    /\ lake[1].LakeCOMID = 2
    /\ TouchedBy(1) # {} /\ TouchedBy(2) # {}
    /\ MaxTouchedArea(1) < MaxTouchedArea(2)

---------------------------------------------------------------------------
(* Properties of the accumulator and the upstream index (SpecIdx, SpecAcc) *)

\* the positions of sequence q holding a non-zero entry
NonZero(q) == {k \in DOMAIN q : q[k] # 0}

\* the ids whose non-sentinel next_id is d, in table df
PointingTo(df, d) ==
    {df[i].COMID : i \in {j \in Rows(df) :
        ~Terminal(df[j].NextDownCOMID) /\ df[j].NextDownCOMID = d}}

\* C14: for every node d the non-zero entries of up1..upK are exactly the
\* ids whose non-sentinel next_id is d, each once; maxup(d) is their
\* number; K is the largest maxup (no up column when it is 0); the slots
\* beyond maxup(d) are 0
C14_UpstreamIndex ==
    pc = "indexed" =>
        LET K == SetMax({0} \cup {riv[i].maxup : i \in Rows(riv)})
        IN  \A i \in Rows(riv) :
              LET P == PointingTo(riv, riv[i].COMID)
                  up == riv[i].up
              IN  /\ {up[k] : k \in NonZero(up)} = P
                  /\ Cardinality(NonZero(up)) = Cardinality(P)
                  /\ riv[i].maxup = Cardinality(P)
                  /\ Len(up) = K
                  /\ NonZero(up) = 1..riv[i].maxup

\* C14 witness: a node with two upstream ids beside a headwater whose two
\* slots are 0
C14_Witness ==
    /\ pc = "indexed"
    /\ \E i, j \in Rows(riv) :
          /\ riv[i].maxup = 2
          /\ riv[j].maxup = 0
          /\ riv[j].up = <<0, 0>>

\* table df with every missing next_id replaced by the sentinel
WithSentinel(df) ==
    [i \in Rows(df) |->
        IF isna(df[i].NextDownCOMID)
        THEN [df[i] EXCEPT !.NextDownCOMID = Sentinel] ELSE df[i]]

\* uparea, maxup and up1..upK of the rows of table df
Derived(df) ==
    [i \in Rows(df) |->
        [uparea |-> df[i].uparea, maxup |-> df[i].maxup, up |-> df[i].up]]

\* C15 (as claimed): a table with a missing next_id goes through the
\* accumulator and the upstream index builder without error, and comes out
\* with the uparea, maxup and up1..upK of the same table with -9999 instead
C15_NullTerminalAccepted ==
    (\E i \in Rows(riv_org) : isna(riv_org[i].NextDownCOMID)) =>
        /\ pc # "error"
        /\ pc = "indexed" =>
              Derived(riv) =
                Derived(add_immediate_upstream(
                          compute_uparea(WithSentinel(riv_org)).df).df)

\* C16 (as claimed): in the table compute_uparea returns every node keeps
\* its input next_id in its original encoding, and only the uparea column
\* differs from the input table
C16_OnlyUpareaRecomputed ==
    pc = "returned" =>
        /\ Len(riv) = Len(riv_org)
        /\ \A i \in Rows(riv) :
              /\ riv[i].NextDownCOMID = riv_org[i].NextDownCOMID
              /\ [riv[i] EXCEPT !.uparea = 0]
                    = [riv_org[i] EXCEPT !.uparea = 0]

\* C16 (amended): as C16, but beside uparea the returned table also
\* differs in unitarea, where a missing value is stored as 0
C16_TopologyUntouched ==
    pc = "returned" =>
        /\ Len(riv) = Len(riv_org)
        /\ \A i \in Rows(riv) :
              /\ riv[i].NextDownCOMID = riv_org[i].NextDownCOMID
              /\ riv[i].unitarea = IF isna(riv_org[i].unitarea) THEN 0
                                   ELSE riv_org[i].unitarea
              /\ [riv[i] EXCEPT !.uparea = 0, !.unitarea = 0]
                    = [riv_org[i] EXCEPT !.uparea = 0, !.unitarea = 0]

\* C16 witness: a returned table with a sentinel, a dangling and a missing
\* next_id and a unit area that was missing in the input
C16_Witness ==
    /\ pc = "returned"
    /\ {riv[i].NextDownCOMID : i \in Rows(riv)} = TerminalEncodings
    /\ \E i \in Rows(riv) : isna(riv_org[i].unitarea) /\ riv[i].unitarea = 0

\* C17: with zero lakes the rewrite returns river and catchment tables
\* with the same rows and, in every row, the same next_id, geometry, unit
\* area and length as the input
C17_NoLakeNoChange ==
    (pc \in {"corrected", "checked"} /\ lake_org = <<>>) =>
        /\ Len(riv) = Len(riv_org)
        /\ \A i \in Rows(riv) :
              /\ riv[i].COMID = riv_org[i].COMID
              /\ riv[i].NextDownCOMID = riv_org[i].NextDownCOMID
              /\ riv[i].geometry = riv_org[i].geometry
              /\ riv[i].unitarea = riv_org[i].unitarea
              /\ riv[i].length = riv_org[i].length
        /\ Len(cat) = Len(CatTable)
        /\ \A i \in Rows(cat) :
              /\ cat[i].COMID = CatTable[i].COMID
              /\ cat[i].geometry = CatTable[i].geometry
              /\ cat[i].unitarea = CatTable[i].unitarea

\* C17 witness: a rewrite with zero lakes that recomputed uparea and the
\* up columns of a confluence
C17_Witness ==
    /\ pc = "corrected"
    /\ lake_org = <<>>
    /\ \E i \in Rows(riv) :
          /\ riv[i].maxup = 2
          /\ riv[i].uparea # riv_org[i].uparea

---------------------------------------------------------------------------
(* Properties of ResolvableLakes (SpecPipe) *)

\* the input lakes meeting the four conditions: centroid inside the
\* expanded bounding box, intersecting a catchment, not touching exactly
\* one catchment, intersecting a start or end point of a river
Resolvable ==
    {lake_org[k].LakeCOMID : k \in {j \in Rows(lake_org) :
        LET id == lake_org[j].LakeCOMID
        IN  /\ geo.inbox[id]
            /\ geo.sjcat[id]
            /\ geo.ncat[id] # 1
            /\ geo.endpt[id]}}

---------------------------------------------------------------------------
(* Properties of OutputChecker (SpecChk, SpecRw) *)

\* C19 (as claimed): the checker rejects a corrected table in which a
\* non-terminal next_id is not an id of that table, so a table it accepts
\* has none
C19_ReferentialIntegrity ==
    pc = "checked" =>
        \A i \in Rows(riv) :
            (notna(riv[i].NextDownCOMID) /\ riv[i].NextDownCOMID > 0) =>
                riv[i].NextDownCOMID \in ComidSet(riv)

\* the immediate neighbours of a row that are lake nodes: its next_id and
\* its up1..upK entries that are the id of a row tagged islake
LakeNeighbours(row) ==
    {n \in ({row.NextDownCOMID} \cup Range(row.up)) :
        \E j \in Rows(riv) : riv[j].COMID = n /\ riv[j].islake = 1}

\* C20: every segment flagged inoutflow with length at or below the
\* tolerance and two or more lake nodes among its immediate neighbours is
\* named in a warning, and the checker ends without an error
C20_ConnectorWarning ==
    pc = "checked" =>
        /\ err = ""
        /\ \A i \in Rows(riv) :
              (/\ riv[i].inoutflow = 1
               /\ notna(riv[i].length) /\ riv[i].length <= 0
               /\ Cardinality(LakeNeighbours(riv[i])) >= 2) =>
                  riv[i].COMID \in warn

\* C20 witness: a fully submerged segment that is the outlet of one lake
\* and flows into another was warned about
C20_Witness ==
    /\ pc = "checked"
    /\ \E i \in Rows(riv) :
          /\ riv[i].inoutflow = 1
          /\ riv[i].length = 0
          /\ Cardinality(LakeNeighbours(riv[i])) = 2
          /\ riv[i].COMID \in warn

\* the shrink ratio of original segment c in percent: what the lakes
\* handed to the rewriter leave of it
ShrinkRatio(c) ==
    IF \E p \in geo.hit : p[1] = c /\ p[2] \in LakeIdSet(lake_org)
    THEN geo.left[c] ELSE 100

C22_IsolatedLake ==
    (\E k \in Rows(lake_org) : TouchedBy(lake_org[k].LakeCOMID) = {}) =>
        /\ pc # "error"
        /\ pc \in {"corrected", "checked"} =>
              /\ \A k \in Rows(lake) :
                    TouchedBy(lake[k].LakeCOMID) = {} =>
                        /\ lake[k].COMID \in ComidSet(riv) \cap ComidSet(cat)
                        /\ Terminal(RowOf(riv, lake[k].COMID).NextDownCOMID)
                        /\ ChildrenOf(riv, lake[k].COMID) = {}
              /\ Overlay(geo, lake_org) = {} =>
                    \A c \in ComidSet(riv_org) :
                        /\ RowOf(riv, c).NextDownCOMID
                              = RowOf(riv_org, c).NextDownCOMID
                        /\ RowOf(riv, c).inflow = 0
                        /\ RowOf(riv, c).outflow = 0

---------------------------------------------------------------------------
(* Properties of the rewriter with one lake (SpecOne) *)

\* C23: 1, 1.0, "1" and True are read as exorheic (the lake points to a
\* segment it touches); 0, 0.0, "0", False, a missing value and an
\* unparseable value are read as endorheic (the lake points to -9999);
\* the coercion never raises
C23_FlagCoercion ==
    (Len(lake) = 1 /\ TouchedBy(1) # {}) =>
        /\ pc # "error"
        /\ pc \in {"rewired", "corrected", "checked"} =>
              LET nxt == RowOf(riv, lake[1].COMID).NextDownCOMID
              IN  /\ lake[1].exorheic \in {"i1", "f1.0", "s1", "bTrue"} =>
                        nxt \in TouchedBy(1)
                  /\ lake[1].exorheic \in {"i0", "f0.0", "s0", "bFalse",
                                           "None", "NaN", "sjunk"} =>
                        nxt = Sentinel

\* C23 witness: a lake whose flag is the text "1" was rewired as exorheic
C23_Witness ==
    /\ pc = "corrected"
    /\ Len(lake) = 1
    /\ lake[1].exorheic = "s1"
    /\ RowOf(riv, lake[1].COMID).NextDownCOMID \in TouchedBy(1)

\* the segments of R sharing the largest input upstream area
TiedAtMax(R) ==
    {c \in R : \A d \in R : InputUparea(d) <= InputUparea(c)}

\* C24: when several segments intersecting an exorheic lake share the
\* maximum upstream area, exactly one becomes the outlet: the tied segment
\* first in row order (the lowest id, the table being sorted by id); it
\* alone among R has outflow = 1 and inflow = 0
C24_TieBreak ==
    (/\ pc \in {"rewired", "corrected", "checked"}
     /\ Len(lake) = 1
     /\ is_exhoreic_flag(lake[1])
     /\ Cardinality(TiedAtMax(TouchedBy(1))) >= 2) =>
        LET R == TouchedBy(1)
            first == CHOOSE c \in TiedAtMax(R) :
                        \A d \in TiedAtMax(R) :
                            LastRowOf(riv_org, c) <= LastRowOf(riv_org, d)
        IN  /\ RowOf(riv, lake[1].COMID).NextDownCOMID = first
            /\ \A d \in TiedAtMax(R) : first <= d
            /\ \A c \in R :
                  /\ (RowOf(riv, c).outflow = 1) <=> (c = first)
                  /\ (RowOf(riv, c).inflow = 0) <=> (c = first)
                  /\ RowOf(riv, c).NextDownCOMID = lake[1].COMID

\* C24 witness: segments 2 and 3 tie at the maximum, below them segment 1;
\* segment 2 is the outlet
C24_Witness ==
    /\ pc = "corrected"
    /\ Len(lake) = 1
    /\ TouchedBy(1) = {1, 2, 3}
    /\ TiedAtMax(TouchedBy(1)) = {2, 3}
    /\ RowOf(riv, lake[1].COMID).NextDownCOMID = 2

---------------------------------------------------------------------------
(* Properties of the whole run (SpecPipe): failure of the rewriter *)

\* C25: the rewrite is all-or-nothing and leaves its inputs alone: when
\* NetworkTopologyCorrection raises, the caller's river, catchment and lake
\* tables stay the ones passed in (no rewritten table is exposed), and in
\* every step the original river table, which is the river table passed in
\* and later handed to the checker, and the ingested lake table are
\* unchanged
C25_AllOrNothing ==
    [][/\ riv_org' = riv_org
       /\ lake_org' = lake_org
       /\ pc = "resolvable" =>
             /\ riv = riv_org
             /\ pc' = "error" =>
                   /\ riv' = riv
                   /\ cat' = cat
                   /\ lake' = lake
                   /\ \A i \in Rows(lake') : isna(lake'[i].COMID)]_vars

\* C25 witness: the rewriter raised on a resolvable lake and the caller
\* holds the tables it passed in, the lake table without assigned COMIDs
C25_Witness ==
    /\ pc = "error"
    /\ err = "TypeError"
    /\ lake # <<>>
    /\ riv = riv_org
    /\ cat = CatTable
    /\ \A i \in Rows(lake) : isna(lake[i].COMID)

---------------------------------------------------------------------------
(* Properties of the stepwise rewriter (SpecRw): the flags *)

\* C26: in the rewriter's output a row has inoutflow set exactly when its
\* inflow and outflow are both set, and then it is a segment that is the
\* outlet of one lake and intersects a different lake
C26_Inoutflow ==
    pc \in {"rewired", "corrected", "checked"} =>
        \A i \in Rows(riv) :
            /\ (riv[i].inoutflow = 1) <=>
                  (riv[i].inflow = 1 /\ riv[i].outflow = 1)
            /\ riv[i].inoutflow = 1 =>
                  /\ riv[i].COMID \in SegIds
                  /\ \E k \in Rows(lake), m \in LakesOf(riv[i].COMID) :
                        /\ OutletOf(k, riv[i].COMID)
                        /\ m # k

\* C26 witness: segment 2 is the outlet of one lake, feeds the other and is
\* flagged; segment 1 feeds a lake only and is not
C26_Witness ==
    /\ pc = "corrected"
    /\ Len(lake) = 2
    /\ RowOf(riv, 2).inoutflow = 1
    /\ RowOf(riv, 2).inflow = 1
    /\ RowOf(riv, 2).outflow = 1
    /\ RowOf(riv, 1).inflow = 1
    /\ RowOf(riv, 1).inoutflow = 0

---------------------------------------------------------------------------
(* Termination of compute_uparea (SpecAccFair) *)

\* C27: compute_uparea terminates on every table, cycles and self-loops
\* included: no node is taken from the queue more than once, and the call
\* eventually returns (or ends with an exception)
C27_Terminates ==
    /\ [](pc \in {"loop", "returned"} =>
             \A c \in DOMAIN acc.visits : acc.visits[c] <= 1)
    /\ <>(pc = "returned" \/ acc.raised # "")

\* C27 witness: the call returned on the cycle 1 -> 2 -> 1 fed by segment 3;
\* segment 3 was processed, the nodes of the cycle never entered the queue
C27_Witness ==
    /\ pc = "returned"
    /\ riv_org[1].NextDownCOMID = 2
    /\ riv_org[2].NextDownCOMID = 1
    /\ riv_org[3].NextDownCOMID = 1
    /\ acc.visits = <<0, 0, 1>>
    /\ acc.heads = {}
    /\ acc.queue = <<>>

---------------------------------------------------------------------------
(* Properties of the stepwise rewriter (SpecRw): references *)

\* every non-terminal NextDownCOMID of table df is a COMID of df
RefersInside(df) ==
    \A i \in Rows(df) :
        Terminal(df[i].NextDownCOMID) \/ df[i].NextDownCOMID \in ComidSet(df)

\* C28: if every non-terminal next_id of the input river table is the id
\* of one of its segments, every next_id of the rewriter's output is
\* terminal (-9999 or missing) or the id of a row of the output table
C28_RewriteIntegrity ==
    (pc \in {"rewired", "corrected", "checked"} /\ RefersInside(riv_org)) =>
        RefersInside(riv)

\* C28 witness: an output in which a segment points to a lake node, a lake
\* node points to a segment, another lake node is terminal and a segment
\* still points to a segment
C28_Witness ==
    /\ pc = "corrected"
    /\ Len(lake) = 2
    /\ RefersInside(riv_org)
    /\ \E i \in Rows(riv) :
          riv[i].COMID \in SegIds /\ riv[i].NextDownCOMID \in LakeNodeIds
    /\ \E i \in Rows(riv) :
          riv[i].COMID \in LakeNodeIds /\ riv[i].NextDownCOMID \in SegIds
    /\ \E i \in Rows(riv) :
          riv[i].COMID \in LakeNodeIds /\ riv[i].NextDownCOMID = Sentinel
    /\ \E i \in Rows(riv) :
          riv[i].COMID \in SegIds /\ riv[i].NextDownCOMID \in SegIds

---------------------------------------------------------------------------
(* Properties of Check B on any table (SpecChkB) *)

\* C29: Check B warns about a segment only if two or more distinct lake
\* nodes are among its next_id and its up1..upK entries; the values of
\* other columns are not read as neighbour ids
C29_WarningNeedsTwoLakes ==
    pc = "checked" =>
        \A c \in warn : Cardinality(LakeNeighbours(RowOf(riv, c))) >= 2

---------------------------------------------------------------------------
(* Properties of the three graph routines on one table (SpecEdge) *)

\* the nodes compute_uparea takes as pointing to n
AddersOf(n) ==
    {u \in ComidSet(riv_org) : NextDownDict(riv_org)[u] = n}

\* the nodes add_immediate_upstream lists in the up columns of row i
ListedIn(i) == {riv[i].up[k] : k \in 1..riv[i].maxup}

\* C30: for every table with integer ids and every node n, the nodes
\* adding their area directly to n in compute_uparea, the nodes listed in
\* n's up1..upK by add_immediate_upstream and n's upstream set in
\* _build_upstream_graph are the same set
C30_SameEdgeSet ==
    pc = "indexed" =>
        \A i \in Rows(riv) :
            /\ AddersOf(riv[i].COMID) = ListedIn(i)
            /\ ListedIn(i) = UpstreamSet(riv, riv[i].COMID)

=============================================================================
